---- MODULE Spec2Model ----
(***************************************************************************)
(* Data-flow model of mot_neural_solver/models/mpn.py: construction of a   *)
(* MOTMPNet and its forward pass (encoder, message passing rounds with     *)
(* deferred, optionally weighted aggregation, edge classification).        *)
(*                                                                         *)
(* Tensors live in a heap `mem` (a sequence; a tensor's id is its          *)
(* position).  A tensor records the operation and loop step that produced  *)
(* it, its width (size of dim 1) and, per row, which rows of which tensors *)
(* it was computed from.  Python variables hold tensor ids, so aliasing    *)
(* and in-place operations are visible.  Row and node indices are 0-based  *)
(* as in the source.                                                       *)
(***************************************************************************)
EXTENDS Integers, Sequences, FiniteSets, TLC

MaxN == 2        \* most nodes of an input graph
MaxM == 2        \* most edges of an input graph
MaxR == 2        \* largest num_enc_steps

NodeDims == {2}  \* encoder_feats_dict['node_out_dim'] values tried
EdgeDims == {3}  \* encoder_feats_dict['edge_out_dim'] values tried

VARIABLES pc, model, data, step, mem,
          initial_edge_feats, initial_node_feats,
          latent_edge_feats, latent_node_feats,
          outputs_dict, node_feats_set, mp_call

vars == <<pc, model, data, step, mem, initial_edge_feats, initial_node_feats,
          latent_edge_feats, latent_node_feats, outputs_dict, node_feats_set,
          mp_call>>

(***************************************************************************)
(* Strings given as node_agg_fn, as tuples of characters, and str.lower(). *)
(***************************************************************************)
Names == { <<"m","e","a","n">>, <<"m","a","x">>, <<"s","u","m">>,
           <<"M","e","a","n">>, <<"m","i","n">> }

LowerChar(c) ==
  CASE c = "M" -> "m" [] c = "E" -> "e" [] c = "A" -> "a" [] c = "N" -> "n"
    [] c = "X" -> "x" [] c = "S" -> "s" [] c = "U" -> "u" [] c = "I" -> "i"
    [] OTHER -> c

Lower(s) == [i \in DOMAIN s |-> LowerChar(s[i])]

AggNames == { <<"m","e","a","n">>, <<"m","a","x">>, <<"s","u","m">> }

Reductions == {"scatter_mean", "scatter_max", "scatter_add"}

(***************************************************************************)
(* Heap of tensors.                                                        *)
(***************************************************************************)
NoRef == [id |-> 0, i |-> 0]
Ref(id, i) == [id |-> id, i |-> i]

Row(args) == [args |-> args, flow_in |-> {}, flow_out |-> {}]

Tensor(op, st, w, rows) ==
  [op |-> op, step |-> st, w |-> w, relu |-> FALSE, rows |-> rows]

Alloc(m, t) == [mem |-> Append(m, t), id |-> Len(m) + 1]

NumRows(m, id) == Len(m[id].rows)

AllRefs(m, id) == [k \in 1..NumRows(m, id) |-> Ref(id, k - 1)]

(***************************************************************************)
(* Indexing.  An integer index i into a dimension of the given size is     *)
(* accepted for -size <= i < size, negative ones counting from the end.    *)
(***************************************************************************)
InRange(i, size) == i >= -size /\ i < size
Wrap(i, size) == IF i < 0 THEN i + size ELSE i

GatherOk(m, id, idx) == \A k \in DOMAIN idx : InRange(idx[k], NumRows(m, id))
Gather(m, id, idx) ==
  [k \in DOMAIN idx |-> Ref(id, Wrap(idx[k], NumRows(m, id)))]

\* t[mask] for a boolean mask: the rows of t at which mask is True, in order.
BoolIndex(t, mask) ==
  LET sel == {j \in DOMAIN mask : mask[j]}
      nth(k) == CHOOSE j \in sel : Cardinality({i \in sel : i < j}) = k - 1
  IN [k \in 1..Cardinality(sel) |-> t[nth(k)]]

RowOf(edge_index) == [k \in DOMAIN edge_index |-> edge_index[k][1]]
ColOf(edge_index) == [k \in DOMAIN edge_index |-> edge_index[k][2]]

(***************************************************************************)
(* Values of the variables outside a model or outside a pass.              *)
(***************************************************************************)
NoAgg == [callable |-> FALSE, op |-> "none", str |-> <<>>]

NoModel ==
  [node_agg_fn |-> NoAgg,
   reattach_initial_edges |-> FALSE, reattach_initial_nodes |-> FALSE,
   edge_model_in_dim |-> 0, node_model_in_dim |-> 0,
   edge_fc_out |-> 0, node_fc_out |-> 0,
   node_mlp_in |-> 0, node_mlp_out |-> 0,
   node_out_dim |-> 0, edge_out_dim |-> 0,
   node_cnn |-> FALSE, num_enc_steps |-> 0, num_class_steps |-> 0]

NoData == [N |-> 0, edge_index |-> <<>>, n_edge_attr |-> 0, x_is_img |-> FALSE]

NoOutputs == [classified_edges |-> <<>>, node_feats |-> <<>>]

NoSet == [flow_out |-> <<>>, flow_in |-> <<>>, x_size0 |-> 0, w |-> 0]

NoCall == [step |-> 0, x |-> 0, edge_attr |-> 0, x_w |-> 0, edge_w |-> 0, edge_in_w |-> 0]

(***************************************************************************)
(* MOTMPNet.__init__ and _build_core_MPNet.                                *)
(***************************************************************************)
\* model_params and bb_encoder, as handed to MOTMPNet.__init__.
AllParams ==
  [node_agg_fn : Names,
   reattach_initial_nodes : BOOLEAN, reattach_initial_edges : BOOLEAN,
   num_enc_steps : 0..MaxR, num_class_steps : 0..MaxR,
   node_out_dim : NodeDims, edge_out_dim : EdgeDims,
   bb_encoder : BOOLEAN]

\* Models that aggregate with 'sum', without an appearance encoder.
ModelParams ==
  {p \in AllParams : p.node_agg_fn = <<"s","u","m">> /\ ~p.bb_encoder}

\* Every aggregation name, without reattachment or appearance encoder.
NamedParams ==
  {p \in AllParams : /\ ~p.bb_encoder
                     /\ ~p.reattach_initial_nodes
                     /\ ~p.reattach_initial_edges}

\* Models with and without an appearance encoder, with a reduction that
\* checks its index (sum) and one that does not (max).
AnyParams ==
  {p \in AllParams : p.node_agg_fn \in {<<"s","u","m">>, <<"m","a","x">>}}

AssertAggName(name) == Lower(name) \in AggNames

SelectAggFn(name) ==
  IF name = <<"m","e","a","n">> THEN [callable |-> TRUE, op |-> "scatter_mean", str |-> <<>>]
  ELSE IF name = <<"m","a","x">> THEN [callable |-> TRUE, op |-> "scatter_max", str |-> <<>>]
  ELSE IF name = <<"s","u","m">> THEN [callable |-> TRUE, op |-> "scatter_add", str |-> <<>>]
  ELSE [callable |-> FALSE, op |-> "none", str |-> name]

EdgeFactor(p) == IF p.reattach_initial_edges THEN 2 ELSE 1
NodeFactor(p) == IF p.reattach_initial_nodes THEN 2 ELSE 1

EdgeModelInDim(p) == NodeFactor(p) * 2 * p.node_out_dim + EdgeFactor(p) * p.edge_out_dim
NodeModelInDim(p) == NodeFactor(p) * p.node_out_dim + p.edge_out_dim

\* Variant: the node merge layer keeps the width of its input.
NodeMlpOutDim_Wide(p) == 2 * p.node_out_dim

\* line 264: nn.Linear(2 * node_out_dim, node_out_dim)
NodeMlpOutDim(p) == p.node_out_dim

BuildModel(p) ==
  [node_agg_fn |-> SelectAggFn(p.node_agg_fn),
   reattach_initial_edges |-> p.reattach_initial_edges,
   reattach_initial_nodes |-> p.reattach_initial_nodes,
   edge_model_in_dim |-> EdgeModelInDim(p),
   node_model_in_dim |-> NodeModelInDim(p),
   edge_fc_out |-> p.edge_out_dim,
   node_fc_out |-> p.node_out_dim,
   node_mlp_in |-> 2 * p.node_out_dim,
   node_mlp_out |-> NodeMlpOutDim(p),
   node_out_dim |-> p.node_out_dim, edge_out_dim |-> p.edge_out_dim,
   node_cnn |-> p.bb_encoder,
   num_enc_steps |-> p.num_enc_steps, num_class_steps |-> p.num_class_steps]

Construct(p) ==
  /\ pc = "new"
  /\ IF AssertAggName(p.node_agg_fn)
       THEN /\ model' = BuildModel(p)
            /\ pc' = "ready"
       ELSE /\ model' = NoModel
            /\ pc' = "ctor_failed"
  /\ UNCHANGED <<data, step, mem, initial_edge_feats, initial_node_feats,
                 latent_edge_feats, latent_node_feats, outputs_dict,
                 node_feats_set, mp_call>>

Init ==
  /\ pc = "new"
  /\ model = NoModel
  /\ data = NoData
  /\ step = 0
  /\ mem = <<>>
  /\ initial_edge_feats = 0
  /\ initial_node_feats = 0
  /\ latent_edge_feats = 0
  /\ latent_node_feats = 0
  /\ outputs_dict = NoOutputs
  /\ node_feats_set = NoSet
  /\ mp_call = NoCall

(***************************************************************************)
(* Input graphs: data.x with N rows, data.edge_index, data.edge_attr.      *)
(* GraphSet(slack, extras, imgs): endpoints lie in -slack..N-1+slack, and  *)
(* there are Len(edge_index) + extra edge feature vectors.  Graphs are the *)
(* graphs that keep the data model's invariant: endpoints are node         *)
(* indices, one edge feature vector per endpoint pair.                     *)
(***************************************************************************)
EdgeLists(S) == UNION { [1..k -> S \X S] : k \in 0..MaxM }

GraphSet(slack, extras, imgs) ==
  UNION { { [N |-> n, edge_index |-> ei, n_edge_attr |-> Len(ei) + extra, x_is_img |-> img]
            : ei \in EdgeLists((0 - slack)..(n - 1 + slack)), extra \in extras, img \in imgs }
          : n \in 1..MaxN }

Graphs == GraphSet(0, {0}, {FALSE})

(***************************************************************************)
(* MOTMPNet.forward, lines 294-312: optional appearance encoder, encoder,  *)
(* and the start of the output bundle.                                     *)
(***************************************************************************)
EncoderOut(w, n) == Tensor("encoder", 0, w, [k \in 1..n |-> Row(<<Ref(0, k - 1)>>)])

CnnStepOk(d) ==
  /\ \A k \in DOMAIN d.edge_index :
        InRange(d.edge_index[k][1], d.N) /\ InRange(d.edge_index[k][2], d.N)
  /\ d.n_edge_attr = Len(d.edge_index)

Encode(d) ==
  /\ pc = "ready"
  /\ data' = d
  /\ step' = 0
  /\ node_feats_set' = NoSet
  /\ mp_call' = NoCall
  /\ UNCHANGED model
  /\ LET e == Alloc(<<>>, EncoderOut(model.edge_out_dim, d.n_edge_attr))
         n == Alloc(e.mem, EncoderOut(model.node_out_dim, d.N))
     IN IF model.node_cnn /\ d.x_is_img /\ ~CnnStepOk(d)
          THEN /\ pc' = "error"
               /\ mem' = <<>>
               /\ initial_edge_feats' = 0
               /\ initial_node_feats' = 0
               /\ latent_edge_feats' = 0
               /\ latent_node_feats' = 0
               /\ outputs_dict' = NoOutputs
          ELSE /\ pc' = "loop"
               /\ mem' = n.mem
               /\ initial_edge_feats' = e.id
               /\ initial_node_feats' = n.id
               /\ latent_edge_feats' = e.id
               /\ latent_node_feats' = n.id
               /\ outputs_dict' = [classified_edges |-> <<>>, node_feats |-> <<n.id>>]

(***************************************************************************)
(* One message passing round.  Every operator returns a record whose err   *)
(* field tells whether the tensor library raised.                          *)
(***************************************************************************)

\* lines 316-319: torch.cat((initial, latent), dim=1) makes a new tensor.
Reattach(m, st, initial, latent) ==
  Alloc(m, Tensor("cat", st, m[initial].w + m[latent].w,
                  [k \in 1..NumRows(m, initial) |->
                      Row(<<Ref(initial, k - 1), Ref(latent, k - 1)>>)]))

\* Variant: the concatenation is stored over the initial edge embedding.
ReattachEdges_Overwrite(m, st, initial, latent) ==
  IF model.reattach_initial_edges
    THEN [mem |-> [m EXCEPT ![initial] =
                     Tensor("cat", st, m[initial].w + m[latent].w,
                            [k \in 1..NumRows(m, initial) |->
                               Row(<<Ref(initial, k - 1), Ref(latent, k - 1)>>)])],
          id |-> initial]
    ELSE [mem |-> m, id |-> latent]

ReattachEdges(m, st, initial, latent) ==
  IF model.reattach_initial_edges THEN Reattach(m, st, initial, latent)
  ELSE [mem |-> m, id |-> latent]

ReattachNodes(m, st, initial, latent) ==
  IF model.reattach_initial_nodes THEN Reattach(m, st, initial, latent)
  ELSE [mem |-> m, id |-> latent]

\* EdgeModel.forward: cat([source, target, edge_attr], dim=1), then edge_mlp.
EdgeModelForward(m, st, xw, source, target, edge_attr) ==
  LET in_w == 2 * xw + m[edge_attr].w
      ok == /\ Len(source) = NumRows(m, edge_attr)
            /\ in_w = model.edge_model_in_dim
      out == Alloc(m, Tensor("edge_mlp", st, model.edge_fc_out,
                     [k \in 1..Len(source) |->
                        Row(<<source[k], target[k], Ref(edge_attr, k - 1)>>)]))
  IN IF ok THEN [err |-> FALSE, mem |-> out.mem, id |-> out.id, in_w |-> in_w]
     ELSE [err |-> TRUE, mem |-> m, id |-> 0, in_w |-> in_w]

\* Variant: an edge from a node to itself counts as forward flow.
FlowOutMask_WithLoops(row, col) == [k \in DOMAIN row |-> row[k] <= col[k]]

\* lines 104, 345, 368: row < col; lines 110, 351, 375: row > col
FlowOutMask(row, col) == [k \in DOMAIN row |-> row[k] < col[k]]
FlowInMask(row, col) == [k \in DOMAIN row |-> row[k] > col[k]]

Messages(mlp, xs, es) ==
  [k \in DOMAIN xs |-> [mlp |-> mlp, node |-> xs[k], edge |-> es[k], weigh |-> NoRef]]

\* TimeAwareNodeModel.forward: the per-edge messages of both partitions.
NodeModelForward(m, x, edge_index, edge_attr) ==
  LET row == RowOf(edge_index)
      col == ColOf(edge_index)
      flow_out_mask == FlowOutMask(row, col)
      flow_out_col == BoolIndex(col, flow_out_mask)
      flow_in_mask == FlowInMask(row, col)
      flow_in_col == BoolIndex(col, flow_in_mask)
      ok == m[x].w + m[edge_attr].w = model.node_model_in_dim
  IN IF ok
       THEN [err |-> FALSE,
             set |-> [flow_out |-> Messages("flow_out_mlp", Gather(m, x, flow_out_col),
                                            BoolIndex(AllRefs(m, edge_attr), flow_out_mask)),
                      flow_in |-> Messages("flow_in_mlp", Gather(m, x, flow_in_col),
                                           BoolIndex(AllRefs(m, edge_attr), flow_in_mask)),
                      x_size0 |-> NumRows(m, x),
                      w |-> model.node_fc_out]]
       ELSE [err |-> TRUE, set |-> NoSet]

\* MetaLayer.forward: the edge update, then the node update on its result.
MetaFail(m) == [err |-> TRUE, mem |-> m, set |-> NoSet, edge_attr |-> 0]

MetaReturn(em, nm) ==
  IF nm.err THEN MetaFail(em.mem)
  ELSE [err |-> FALSE, mem |-> em.mem, set |-> nm.set, edge_attr |-> em.id]

\* Variant: the node update reads the edge embeddings the round was given.
MetaNodeUpdate_StaleEdges(m, x, edge_index, edge_attr, em) ==
  IF em.err THEN MetaFail(m)
  ELSE MetaReturn(em, NodeModelForward(em.mem, x, edge_index, edge_attr))

\* lines 69-73: edge_attr is by now the edge model's output, em.
MetaNodeUpdate(m, x, edge_index, edge_attr, em) ==
  IF em.err THEN MetaFail(m)
  ELSE MetaReturn(em, NodeModelForward(em.mem, x, edge_index, em.id))

MetaLayerForward(m, st, x, edge_index, edge_attr) ==
  IF GatherOk(m, x, RowOf(edge_index)) /\ GatherOk(m, x, ColOf(edge_index))
    THEN MetaNodeUpdate(m, x, edge_index, edge_attr,
           EdgeModelForward(m, st, m[x].w, Gather(m, x, RowOf(edge_index)),
                            Gather(m, x, ColOf(edge_index)), edge_attr))
    ELSE MetaFail(m)

\* Variant: classification starts one round early.
FirstClassStep_Early(R, C) == R - C

\* line 310
FirstClassStep(R, C) == R - C + 1

\* MLPGraphIndependent.forward of the classifier on the edge embeddings: one
\* logit per edge (edge_out_dim of the classifier is 1, as reshape(-1) at
\* line 340 needs for one confidence per edge).
Classifier(m, st, edge_feats) ==
  Alloc(m, Tensor("classifier", st, 1,
                  [k \in 1..NumRows(m, edge_feats) |-> Row(<<Ref(edge_feats, k - 1)>>)]))

\* Variant: the confidences are taken with the other partition's mask.
EdgeWeigh_OtherMask(dec_edge_weigh, mask) ==
  BoolIndex(dec_edge_weigh, [k \in DOMAIN mask |-> ~mask[k]])

\* lines 347, 353: dec_edge_weigh[mask]
EdgeWeigh(dec_edge_weigh, mask) == BoolIndex(dec_edge_weigh, mask)

\* lines 349, 355: flow * weigh.reshape(-1, 1), an elementwise product of
\* two tensors with as many rows.
WeighOk(msgs, ws) == Len(msgs) = Len(ws)
Weigh(msgs, ws) == [k \in DOMAIN msgs |-> [msgs[k] EXCEPT !.weigh = ws[k]]]

\* scatter_mean / scatter_max / scatter_add with dim_size: row v of the
\* result reduces the messages whose index is v.
ScatterOk(index, dim_size) == \A k \in DOMAIN index : index[k] \in 0..(dim_size - 1)
Scatter(msgs, index, dim_size) ==
  [v \in 1..dim_size |-> {msgs[k] : k \in {j \in DOMAIN msgs : index[j] = v - 1}}]

\* lines 264-266: nn.Linear(2n, n), then ReLU(inplace=True) on its output.
ReluInplace(m, id) == [m EXCEPT ![id].relu = TRUE]

NodeMlp(m, st, flow_in, flow_out) ==
  LET lin == Alloc(m, Tensor("node_mlp", st, model.node_mlp_out,
                     [v \in DOMAIN flow_in |->
                        [args |-> <<>>, flow_in |-> flow_in[v], flow_out |-> flow_out[v]]]))
  IN [mem |-> ReluInplace(lin.mem, lin.id), id |-> lin.id]

\* Variant: every round appends the node embedding.
AppendNodeFeats_Always(node_feats, classify, id) == Append(node_feats, id)

\* line 361: only the classification branch appends the node embedding.
AppendNodeFeats(node_feats, classify, id) ==
  IF classify THEN Append(node_feats, id) ELSE node_feats

\* lines 314-384, one iteration of the loop, in the order of the source.
\* lenient_max: whether an out-of-range index given to scatter_max goes
\* undetected.
RoundFail(call) ==
  [err |-> TRUE, call |-> call, mem |-> <<>>, latent_edge_feats |-> 0,
   latent_node_feats |-> 0, node_feats_set |-> NoSet, outputs_dict |-> NoOutputs]

\* lines 357-361 and 381-384
RoundMerge(st, call, mp, classify, dec, flow_in, flow_out) ==
  IF 2 * mp.set.w = model.node_mlp_in
    THEN LET nm == NodeMlp(dec.mem, st, flow_in, flow_out)
         IN [err |-> FALSE, call |-> call, mem |-> nm.mem,
             latent_edge_feats |-> mp.edge_attr, latent_node_feats |-> nm.id,
             node_feats_set |-> mp.set,
             outputs_dict |->
               [classified_edges |->
                  IF classify THEN Append(outputs_dict.classified_edges, dec.id)
                  ELSE outputs_dict.classified_edges,
                node_feats |-> AppendNodeFeats(outputs_dict.node_feats, classify, nm.id)]]
    ELSE RoundFail(call)

\* lines 343-355 and 366-379
RoundAggregate(st, lenient_max, call, mp, classify, dec) ==
  LET row == RowOf(data.edge_index)
      col == ColOf(data.edge_index)
      flow_out_mask == FlowOutMask(row, col)
      flow_out_row == BoolIndex(row, flow_out_mask)
      flow_in_mask == FlowInMask(row, col)
      flow_in_row == BoolIndex(row, flow_in_mask)
      dec_edge_weigh == IF classify THEN AllRefs(dec.mem, dec.id) ELSE <<>>
      flow_out_edge_weigh == EdgeWeigh(dec_edge_weigh, flow_out_mask)
      flow_in_edge_weigh == EdgeWeigh(dec_edge_weigh, flow_in_mask)
      x_size0 == mp.set.x_size0
  IN IF ~model.node_agg_fn.callable THEN RoundFail(call)
     ELSE IF classify /\ ~(/\ WeighOk(mp.set.flow_out, flow_out_edge_weigh)
                           /\ WeighOk(mp.set.flow_in, flow_in_edge_weigh))
       THEN RoundFail(call)
     ELSE IF /\ ~(ScatterOk(flow_out_row, x_size0) /\ ScatterOk(flow_in_row, x_size0))
             /\ ~(model.node_agg_fn.op = "scatter_max" /\ lenient_max)
       THEN RoundFail(call)
     ELSE RoundMerge(st, call, mp, classify, dec,
            Scatter(IF classify THEN Weigh(mp.set.flow_in, flow_in_edge_weigh)
                    ELSE mp.set.flow_in, flow_in_row, x_size0),
            Scatter(IF classify THEN Weigh(mp.set.flow_out, flow_out_edge_weigh)
                    ELSE mp.set.flow_out, flow_out_row, x_size0))

\* lines 336-340
RoundClassify(st, lenient_max, call, mp, classify) ==
  IF mp.err THEN RoundFail(call)
  ELSE RoundAggregate(st, lenient_max, call, mp, classify,
         IF classify THEN Classifier(mp.mem, st, mp.edge_attr)
         ELSE [mem |-> mp.mem, id |-> 0])

\* line 334
RoundMessagePassing(st, lenient_max, m, x, edge_attr) ==
  RoundClassify(st, lenient_max,
    [step |-> st, x |-> x, edge_attr |-> edge_attr, x_w |-> m[x].w,
     edge_w |-> m[edge_attr].w, edge_in_w |-> 2 * m[x].w + m[edge_attr].w],
    MetaLayerForward(m, st, x, data.edge_index, edge_attr),
    st >= FirstClassStep(model.num_enc_steps, model.num_class_steps))

\* lines 318-319
RoundReattachNodes(st, lenient_max, re, rn) ==
  RoundMessagePassing(st, lenient_max, rn.mem, rn.id, re.id)

\* lines 316-317
RoundReattachEdges(st, lenient_max, re) ==
  RoundReattachNodes(st, lenient_max, re,
    ReattachNodes(re.mem, st, initial_node_feats, latent_node_feats))

RoundBody(st, lenient_max) ==
  RoundReattachEdges(st, lenient_max,
    ReattachEdges(mem, st, initial_edge_feats, latent_edge_feats))

\* torch_scatter's scatter_max does not check its index: with an index out
\* of range the call may raise or go on.  The other two reductions raise.
MaxOutcomes == IF model.node_agg_fn.op = "scatter_max" THEN BOOLEAN ELSE {FALSE}

\* A round that raises ends the pass: pc becomes "error" and the locals of
\* the abandoned call are left as the round found them.
Round(lenient_max) ==
  /\ pc = "loop"
  /\ step < model.num_enc_steps
  /\ \E r \in {RoundBody(step + 1, lenient_max)} :
        /\ mp_call' = r.call
        /\ IF r.err
             THEN /\ pc' = "error"
                  /\ UNCHANGED <<step, mem, latent_edge_feats, latent_node_feats,
                                 outputs_dict, node_feats_set>>
             ELSE /\ pc' = "loop"
                  /\ step' = step + 1
                  /\ mem' = r.mem
                  /\ latent_edge_feats' = r.latent_edge_feats
                  /\ latent_node_feats' = r.latent_node_feats
                  /\ outputs_dict' = r.outputs_dict
                  /\ node_feats_set' = r.node_feats_set
  /\ UNCHANGED <<model, data, initial_edge_feats, initial_node_feats>>

\* lines 386-390: the zero-round classification and the return.
Finish ==
  /\ pc = "loop"
  /\ step = model.num_enc_steps
  /\ pc' = "done"
  /\ IF model.num_enc_steps = 0
       THEN LET dec == Classifier(mem, 0, latent_edge_feats)
            IN /\ mem' = dec.mem
               /\ outputs_dict' = [outputs_dict EXCEPT
                                     !.classified_edges = Append(@, dec.id)]
       ELSE UNCHANGED <<mem, outputs_dict>>
  /\ UNCHANGED <<model, data, step, initial_edge_feats, initial_node_feats,
                 latent_edge_feats, latent_node_feats, node_feats_set, mp_call>>

\* The call has returned or raised: its locals are gone, the model stays.
Return ==
  /\ pc \in {"done", "error"}
  /\ pc' = "ready"
  /\ data' = NoData
  /\ step' = 0
  /\ mem' = <<>>
  /\ initial_edge_feats' = 0
  /\ initial_node_feats' = 0
  /\ latent_edge_feats' = 0
  /\ latent_node_feats' = 0
  /\ outputs_dict' = NoOutputs
  /\ node_feats_set' = NoSet
  /\ mp_call' = NoCall
  /\ UNCHANGED model

(***************************************************************************)
(* Specifications.  Spec: 'sum' models on graphs that keep the data        *)
(* model's invariant.  SpecNames: models built from every aggregation      *)
(* name.  SpecAny: graphs that may break the invariant.                    *)
(***************************************************************************)
NewModel == pc = "new" /\ \E p \in ModelParams : Construct(p)
NewNamedModel == pc = "new" /\ \E p \in NamedParams : Construct(p)
NewAnyModel == pc = "new" /\ \E p \in AnyParams : Construct(p)

Forward == pc = "ready" /\ \E d \in Graphs : Encode(d)
\* Image crops are given only to a model that has an appearance encoder.
ForwardAny ==
  /\ pc = "ready"
  /\ \E d \in GraphSet(1, 0..1, IF model.node_cnn THEN BOOLEAN ELSE {FALSE}) : Encode(d)

Step == pc = "loop" /\ \E lenient_max \in MaxOutcomes : Round(lenient_max)

Next == NewModel \/ Forward \/ Step \/ Finish \/ Return

Spec == Init /\ [][Next]_vars

NextNames == NewNamedModel \/ Forward \/ Step \/ Finish \/ Return

SpecNames == Init /\ [][NextNames]_vars

NextAny == NewAnyModel \/ ForwardAny \/ Step \/ Finish \/ Return

SpecAny == Init /\ [][NextAny]_vars
(***************************************************************************)
(* Properties.                                                             *)
(***************************************************************************)
TotalRounds == model.num_enc_steps
ClassRounds == model.num_class_steps
NumEdges == Len(data.edge_index)

\* The messages aggregated into the current node embedding, per node row.
NodeRows == mem[latent_node_feats].rows
MessagesAt(v) == NodeRows[v].flow_out \cup NodeRows[v].flow_in
RoundDone == pc \in {"loop", "done"} /\ step >= 1

\* C1: a completed pass with R >= 1 and 0 <= C <= R returns exactly C logit
\* vectors, the k-th one classifying the edge embeddings that round
\* R-C+k produced; with R = 0 it returns exactly one, classifying the
\* encoder's edge embeddings.
C1_LogitsPerClassRound ==
  pc = "done" =>
    /\ (TotalRounds >= 1 /\ ClassRounds <= TotalRounds) =>
         /\ Len(outputs_dict.classified_edges) = ClassRounds
         /\ \A k \in 1..ClassRounds :
              LET t == mem[outputs_dict.classified_edges[k]]
              IN /\ t.op = "classifier"
                 /\ t.step = TotalRounds - ClassRounds + k
                 /\ Len(t.rows) = NumEdges
                 /\ \A j \in 1..Len(t.rows) :
                      /\ Len(t.rows[j].args) = 1
                      /\ t.rows[j].args[1].i = j - 1
                      /\ mem[t.rows[j].args[1].id].op = "edge_mlp"
                      /\ mem[t.rows[j].args[1].id].step = TotalRounds - ClassRounds + k
    /\ TotalRounds = 0 =>
         /\ Len(outputs_dict.classified_edges) = 1
         /\ LET t == mem[outputs_dict.classified_edges[1]]
            IN /\ t.op = "classifier"
               /\ Len(t.rows) = NumEdges
               /\ \A j \in 1..Len(t.rows) :
                    t.rows[j].args = <<Ref(initial_edge_feats, j - 1)>>
         /\ mem[initial_edge_feats].op = "encoder"

C1_Witness ==
  /\ pc = "done"
  /\ TotalRounds = 2 /\ ClassRounds = 1
  /\ NumEdges = 2
  /\ Len(outputs_dict.classified_edges) = 1

CompletedClassRounds ==
  LET first == IF TotalRounds - ClassRounds + 1 < 1 THEN 1
               ELSE TotalRounds - ClassRounds + 1
  IN IF step >= first THEN step - first + 1 ELSE 0

C3_NodeSnapshots ==
  pc \in {"loop", "done"} =>
    /\ Len(outputs_dict.node_feats) = 1 + CompletedClassRounds
    /\ outputs_dict.node_feats[1] = initial_node_feats
    /\ mem[initial_node_feats].op = "encoder"
    /\ \A k \in 1..CompletedClassRounds :
         /\ mem[outputs_dict.node_feats[1 + k]].op = "node_mlp"
         /\ mem[outputs_dict.node_feats[1 + k]].step = step - CompletedClassRounds + k
    /\ (pc = "done" /\ ClassRounds <= TotalRounds) =>
         Len(outputs_dict.node_feats) = 1 + ClassRounds
    /\ TotalRounds = 0 =>
         /\ latent_node_feats = initial_node_feats
         /\ \A id \in DOMAIN mem : mem[id].op # "node_mlp"

C3_Witness ==
  /\ pc = "done"
  /\ TotalRounds = 2 /\ ClassRounds = 1
  /\ Len(outputs_dict.node_feats) = 2
  /\ mem[outputs_dict.node_feats[2]].step = 2

\* C4 (as claimed): a pass on a graph with an endpoint outside 0..N-1, or
\* with a number of edge feature vectors other than the number of endpoint
\* pairs, never returns.
GraphWellFormed ==
  /\ \A k \in 1..NumEdges :
       /\ data.edge_index[k][1] \in 0..(data.N - 1)
       /\ data.edge_index[k][2] \in 0..(data.N - 1)
  /\ data.n_edge_attr = NumEdges

C4_MalformedGraphRaises == pc = "done" => GraphWellFormed

\* C5 (as claimed): a constructed model's aggregation function is one of
\* the three reductions.
C5_AggIsReduction ==
  pc \notin {"new", "ctor_failed"} =>
    /\ model.node_agg_fn.callable
    /\ model.node_agg_fn.op \in Reductions

\* C6: after a round with index >= R-C+1 every aggregated message carries
\* the confidence of the logit that this round's classifier computed from
\* the new embedding of the message's own edge; after an earlier round no
\* aggregated message carries a confidence.
C6_WeighedByOwnEdge ==
  RoundDone =>
    \A v \in 1..Len(NodeRows) : \A msg \in MessagesAt(v) :
      IF step >= TotalRounds - ClassRounds + 1
        THEN LET logits == outputs_dict.classified_edges[Len(outputs_dict.classified_edges)]
             IN /\ mem[logits].op = "classifier"
                /\ mem[logits].step = step
                /\ msg.weigh = Ref(logits, msg.edge.i)
                /\ mem[logits].rows[msg.edge.i + 1].args = <<msg.edge>>
                /\ msg.edge.id = latent_edge_feats
        ELSE msg.weigh = NoRef

C6_Witness ==
  /\ RoundDone
  /\ step >= TotalRounds - ClassRounds + 1
  /\ data.edge_index = <<<<1, 0>>, <<0, 1>>>>
  /\ \E v \in 1..Len(NodeRows) : \E msg \in NodeRows[v].flow_out :
       msg.weigh.i = 1 /\ msg.edge.i = 1

\* C7 (as claimed): the node whose embedding enters a message is the node
\* under whose index the message is aggregated.
C7_ConcatenatedIsGroupingNode ==
  RoundDone =>
    \A v \in 1..Len(NodeRows) : \A msg \in MessagesAt(v) : msg.node.i = v - 1

\* C8: from the encoder's return to the end of the pass, no step changes
\* the initial node embedding or the initial edge embedding, and the first
\* node snapshot stays that initial node embedding.
C8_InitialUnchanged ==
  [][pc = "loop" =>
       /\ initial_edge_feats' = initial_edge_feats
       /\ initial_node_feats' = initial_node_feats
       /\ mem'[initial_edge_feats] = mem[initial_edge_feats]
       /\ mem'[initial_node_feats] = mem[initial_node_feats]
       /\ outputs_dict.node_feats[1] = initial_node_feats
       /\ outputs_dict'.node_feats[1] = initial_node_feats]_vars

C8_Witness ==
  /\ pc = "done"
  /\ TotalRounds = 2
  /\ model.reattach_initial_edges /\ model.reattach_initial_nodes
  /\ NumEdges = 2
  /\ mem[initial_edge_feats].op = "encoder"
  /\ mem[initial_node_feats].op = "encoder"
  /\ mem[latent_node_feats].relu

\* C9: with update networks as wide as the encoder's outputs, every round
\* is entered with node embeddings of width n (2n with node reattachment)
\* and edge embeddings of width e (e + e with edge reattachment), so the edge
\* update's input has the declared width node_factor*2*n + edge_factor*e.
C9_WidthsEveryRound ==
  (/\ mp_call.step >= 1
   /\ model.edge_fc_out = model.edge_out_dim
   /\ model.node_fc_out = model.node_out_dim) =>
    /\ mp_call.x_w = IF model.reattach_initial_nodes THEN 2 * model.node_out_dim
                     ELSE model.node_out_dim
    /\ mp_call.edge_w = IF model.reattach_initial_edges
                          THEN model.edge_out_dim + model.edge_out_dim
                          ELSE model.edge_out_dim
    /\ mp_call.x_w = mem[mp_call.x].w
    /\ mp_call.edge_w = mem[mp_call.edge_attr].w
    /\ 2 * mp_call.x_w + mp_call.edge_w = model.edge_model_in_dim

C9_Witness ==
  /\ pc = "loop"
  /\ mp_call.step = 2 /\ step = 2
  /\ model.reattach_initial_edges /\ model.reattach_initial_nodes
  /\ mp_call.x_w = 2 * model.node_out_dim

\* C10: after every round, the new embedding of edge k is computed from the
\* round's input embeddings of its two endpoints and its own input
\* embedding; every node message of the round is built from a new edge
\* embedding and an input node embedding; the round hands back the new edge
\* embeddings.
C10_EdgeUpdateFirst ==
  RoundDone =>
    /\ mp_call.step = step
    /\ latent_edge_feats # mp_call.edge_attr
    /\ mem[latent_edge_feats].op = "edge_mlp"
    /\ mem[latent_edge_feats].step = step
    /\ Len(mem[latent_edge_feats].rows) = NumEdges
    /\ \A k \in 1..NumEdges :
         mem[latent_edge_feats].rows[k].args =
           <<Ref(mp_call.x, data.edge_index[k][1]),
             Ref(mp_call.x, data.edge_index[k][2]),
             Ref(mp_call.edge_attr, k - 1)>>
    /\ \A msg \in {node_feats_set.flow_out[k] : k \in DOMAIN node_feats_set.flow_out}
                  \cup {node_feats_set.flow_in[k] : k \in DOMAIN node_feats_set.flow_in} :
         /\ msg.edge.id = latent_edge_feats
         /\ msg.node.id = mp_call.x
    /\ Len(node_feats_set.flow_out) + Len(node_feats_set.flow_in)
         = Cardinality({k \in 1..NumEdges : data.edge_index[k][1] # data.edge_index[k][2]})

C10_Witness ==
  /\ RoundDone
  /\ step = 2
  /\ Len(node_feats_set.flow_out) = 1
  /\ Len(node_feats_set.flow_in) = 1
  /\ ~model.reattach_initial_edges
====
